---- MODULE Spec2Model ----
(***************************************************************************)
(* Secret social recovery pallet (src/src/lib.rs): the storage items       *)
(* Recoverable, ActiveRecoveries and Proxy, the six dispatchable calls of  *)
(* decl_module!, and the collaborators they consult (origin checks, the    *)
(* block number, the account reference count, sr25519 verification and     *)
(* merkle proof validation).                                               *)
(***************************************************************************)
EXTENDS Integers, Sequences, FiniteSets, TLC

\* ------------------------------------------------------------------ bounds

\* The largest block number T::BlockNumber can hold (u64::MAX in the mock
\* runtime, scaled down): checked_add fails beyond it.
MaxBlockNumber == 2

\* The largest threshold a caller passes to create_recovery.
MaxThreshold == 2

\* ------------------------------------------------------------------ inputs

\* AccountId is an sr25519 public key; the integers stand for the keys in
\* their byte order (the order binary_search compares them in).
Accounts == {1, 2, 3}

\* Accounts that sign create_recovery, and accounts that sign
\* initiate_recovery / claim_recovery, in the runs explored.
Owners == {1}
Rescuers == {2, 3}

\* Friend sets a merkle tree is built from (MerkleTree::from_vec): the one
\* an owner commits to, and the trees proofs are generated from.
FriendSets == {{2, 3}}
Trees == FriendSets \cup {{3}}

DelayPeriods == {0, 1}
Thresholds == 0..MaxThreshold

\* The opaque calls as_recovered forwards, with the outcome their dispatch has.
Calls == {"transfer"}
CallOutcomes == {"Ok", "CallFailed"}

\* Option<T>: None is the empty sequence, Some(v) the one-element sequence.
None == <<>>
Some(v) == <<v>>
IsSome(o) == o # <<>>
Unwrap(o) == o[1]

\* system::RawOrigin
Root == [kind |-> "Root", who |-> 0]
NoOrigin == [kind |-> "None", who |-> 0]
Signed(a) == [kind |-> "Signed", who |-> a]
Origins == {Root, NoOrigin} \cup {Signed(a) : a \in Accounts}

\* sr25519 signatures: sign_by_seed(seed, message) is the pair of the signing
\* key and the signed message; Pair::verify accepts it for exactly that
\* message and that public key.
Signatures == [signer : {2, 3}, message : {2, 3}]
sign_by_seed(seed, message) == [signer |-> seed, message |-> message]
verify(signature, message, public) ==
    signature.signer = public /\ signature.message = message

\* The root hash of the tree built from a friend set: a digest that differs
\* for different sets (one bit per leaf).
RECURSIVE root_hash(_)
root_hash(tree) ==
    IF tree = {} THEN 0
    ELSE LET a == CHOOSE x \in tree : TRUE
         IN  2 ^ a + root_hash(tree \ {a})

\* merkle::Proof: the value it claims and the tree its lemma hashes up to.
\* gen_proof(tree, value) is the proof an honest tree hands out; a proof
\* whose value is no leaf of its tree is a forged one.
Proofs == [value : {2, 3}, tree : Trees]
gen_proof(tree, value) == [value |-> value, tree |-> tree]
validate(proof, root) ==
    proof.value \in proof.tree /\ root_hash(proof.tree) = root

MerkleRoots == {root_hash(t) : t \in FriendSets}

\* ------------------------------------------------------------------- state

VARIABLES
    Recoverable,       \* AccountId -> Option<RecoveryConfig>
    ActiveRecoveries,  \* (lost, rescuer) -> Option<ActiveRecovery>
    Proxy,             \* rescuer -> Option<AccountId>
    block_number,      \* system::Module::block_number()
    refs,              \* system account reference counts (inc_ref)
    called,            \* the dispatchable called last
    result,            \* what it returned: "Ok" or the error
    event,             \* Option: the event it deposited
    dispatched         \* Option: the call as_recovered forwarded, with its origin

storage == <<Recoverable, ActiveRecoveries, Proxy, refs>>
outcome == <<called, result, event, dispatched>>
vars == <<Recoverable, ActiveRecoveries, Proxy, block_number, refs,
          called, result, event, dispatched>>

RecoveryConfig(delay_period, friends_merkle_root, threshold) ==
    [delay_period |-> delay_period,
     friends_merkle_root |-> friends_merkle_root,
     threshold |-> threshold]

ActiveRecovery(created, approved_friends) ==
    [created |-> created, approved_friends |-> approved_friends]

recovery_config(who) == Recoverable[who]
active_recovery(lost, rescuer) == ActiveRecoveries[<<lost, rescuer>>]
proxy(rescuer) == Proxy[rescuer]

Init ==
    /\ Recoverable = [a \in Accounts |-> None]
    /\ ActiveRecoveries = [k \in Accounts \X Accounts |-> None]
    /\ Proxy = [a \in Accounts |-> None]
    /\ block_number = 1
    /\ refs = [a \in Accounts |-> 0]
    /\ called = "none"
    /\ result = "Ok"
    /\ event = None
    /\ dispatched = None

\* ----------------------------------------------------------- collaborators

ensure_root(origin) == origin.kind = "Root"
ensure_signed(origin) == origin.kind = "Signed"

\* Addition on T::BlockNumber that wraps around instead of reporting overflow.
wrapping_add(a, b) == Some((a + b) % (MaxBlockNumber + 1))

\* checked_add on T::BlockNumber: None on overflow.
checked_add(a, b) == IF a + b > MaxBlockNumber THEN None ELSE Some(a + b)

\* slice::binary_search on a sorted vector: found with the index (0-based),
\* or not found with the index where the value keeps the vector sorted.
RECURSIVE binary_search_from(_, _, _, _)
binary_search_from(v, x, lo, hi) ==
    IF lo >= hi THEN [found |-> FALSE, pos |-> lo]
    ELSE LET mid == (lo + hi) \div 2
         IN  IF v[mid + 1] = x THEN [found |-> TRUE, pos |-> mid]
             ELSE IF v[mid + 1] < x THEN binary_search_from(v, x, mid + 1, hi)
             ELSE binary_search_from(v, x, lo, mid)

binary_search(v, x) == binary_search_from(v, x, 0, Len(v))

\* Vec::insert(pos, x)
insert(v, pos, x) == SubSeq(v, 1, pos) \o <<x>> \o SubSeq(v, pos + 1, Len(v))

\* A call that returns an error writes nothing and deposits no event.
Rejected(name, error) ==
    /\ called' = name
    /\ result' = error
    /\ event' = None
    /\ dispatched' = None
    /\ UNCHANGED <<Recoverable, ActiveRecoveries, Proxy, refs, block_number>>

Returned(name, ev) ==
    /\ called' = name
    /\ result' = "Ok"
    /\ event' = Some(ev)
    /\ dispatched' = None

\* ------------------------------------------------------------ set_recovered

set_recovered_result(origin) ==
    IF ~ensure_root(origin) THEN "BadOrigin" ELSE "Ok"

\* set_recovered with the key and the value of the Proxy insert exchanged.
set_recovered_swapped(origin, lost, rescuer) ==
    LET r == set_recovered_result(origin)
    IN  IF r # "Ok" THEN Rejected("set_recovered", r)
        ELSE /\ Proxy' = [Proxy EXCEPT ![lost] = Some(rescuer)]
             /\ Returned("set_recovered", <<"AccountRecovered", lost, rescuer>>)
             /\ UNCHANGED <<Recoverable, ActiveRecoveries, refs, block_number>>

set_recovered(origin, lost, rescuer) ==
    LET r == set_recovered_result(origin)
    IN  IF r # "Ok" THEN Rejected("set_recovered", r)
        ELSE /\ Proxy' = [Proxy EXCEPT ![rescuer] = Some(lost)]
             /\ Returned("set_recovered", <<"AccountRecovered", lost, rescuer>>)
             /\ UNCHANGED <<Recoverable, ActiveRecoveries, refs, block_number>>

\* ------------------------------------------------------------- as_recovered

\* as_recovered without the comparison of the proxy target with `lost`.
as_recovered_result_any_target(origin, lost) ==
    IF ~ensure_signed(origin) THEN "BadOrigin"
    ELSE IF ~IsSome(proxy(origin.who)) THEN "NotAllowed"
    ELSE "Ok"

as_recovered_result(origin, lost) ==
    IF ~ensure_signed(origin) THEN "BadOrigin"
    ELSE IF ~IsSome(proxy(origin.who)) THEN "NotAllowed"
    ELSE IF Unwrap(proxy(origin.who)) # lost THEN "NotAllowed"
    ELSE "Ok"

\* call.dispatch(Signed(lost)): the forwarded call runs under the lost
\* account's identity and its outcome is returned as it is.
as_recovered(origin, lost, call, inner) ==
    LET r == as_recovered_result(origin, lost)
    IN  IF r # "Ok" THEN Rejected("as_recovered", r)
        ELSE /\ called' = "as_recovered"
             /\ result' = inner
             /\ event' = None
             /\ dispatched' = Some([origin |-> Signed(lost), call |-> call])
             /\ UNCHANGED <<Recoverable, ActiveRecoveries, Proxy, refs, block_number>>

\* ---------------------------------------------------------- create_recovery

\* create_recovery without the threshold check.
create_recovery_result_any_threshold(origin, threshold) ==
    IF ~ensure_signed(origin) THEN "BadOrigin"
    ELSE IF IsSome(Recoverable[origin.who]) THEN "AlreadyRecoverable"
    ELSE "Ok"

\* create_recovery without the AlreadyRecoverable check.
create_recovery_result_overwrite(origin, threshold) ==
    IF ~ensure_signed(origin) THEN "BadOrigin"
    ELSE IF ~(threshold >= 1) THEN "ZeroThreshold"
    ELSE "Ok"

create_recovery_result(origin, threshold) ==
    IF ~ensure_signed(origin) THEN "BadOrigin"
    ELSE IF IsSome(Recoverable[origin.who]) THEN "AlreadyRecoverable"
    ELSE IF ~(threshold >= 1) THEN "ZeroThreshold"
    ELSE "Ok"

create_recovery(origin, friends_merkle_root, threshold, delay_period) ==
    LET r == create_recovery_result(origin, threshold)
        who == origin.who
    IN  IF r # "Ok" THEN Rejected("create_recovery", r)
        ELSE /\ Recoverable' = [Recoverable EXCEPT ![who] =
                    Some(RecoveryConfig(delay_period, friends_merkle_root, threshold))]
             /\ Returned("create_recovery", <<"RecoveryCreated", who>>)
             /\ UNCHANGED <<ActiveRecoveries, Proxy, refs, block_number>>

\* -------------------------------------------------------- initiate_recovery

\* initiate_recovery without the AlreadyStarted check.
initiate_recovery_result_restart(origin, lost) ==
    IF ~ensure_signed(origin) THEN "BadOrigin"
    ELSE IF ~IsSome(Recoverable[lost]) THEN "NotRecoverable"
    ELSE "Ok"

initiate_recovery_result(origin, lost) ==
    IF ~ensure_signed(origin) THEN "BadOrigin"
    ELSE IF ~IsSome(Recoverable[lost]) THEN "NotRecoverable"
    ELSE IF IsSome(ActiveRecoveries[<<lost, origin.who>>]) THEN "AlreadyStarted"
    ELSE "Ok"

initiate_recovery(origin, lost) ==
    LET r == initiate_recovery_result(origin, lost)
        rescuer == origin.who
    IN  IF r # "Ok" THEN Rejected("initiate_recovery", r)
        ELSE /\ ActiveRecoveries' = [ActiveRecoveries EXCEPT ![<<lost, rescuer>>] =
                    Some(ActiveRecovery(block_number, <<>>))]
             /\ Returned("initiate_recovery", <<"RecoveryInitiated", lost, rescuer>>)
             /\ UNCHANGED <<Recoverable, Proxy, refs, block_number>>

\* --------------------------------------------------------- approve_recovery

\* approve_recovery verifying the signature over the lost account instead of
\* the rescuer, so that it no longer binds the approval to one rescuer.
approve_recovery_result_unbound_signature(origin, lost, rescuer, signature, proof) ==
    LET approver == proof.value
    IN  IF ~IsSome(Recoverable[lost]) THEN "NotRecoverable"
        ELSE IF signature.signer # approver THEN "SignatureInvalid"
        ELSE IF ~validate(proof, Unwrap(recovery_config(lost)).friends_merkle_root)
             THEN "MerkleProofInvalid"
        ELSE IF ~IsSome(active_recovery(lost, rescuer)) THEN "NotStarted"
        ELSE IF binary_search(Unwrap(active_recovery(lost, rescuer)).approved_friends,
                              approver).found
             THEN "AlreadyApproved"
        ELSE "Ok"

\* approve_recovery validating the proof against the root the proof itself
\* carries instead of the stored friends_merkle_root.
approve_recovery_result_own_root(origin, lost, rescuer, signature, proof) ==
    LET approver == proof.value
    IN  IF ~IsSome(Recoverable[lost]) THEN "NotRecoverable"
        ELSE IF ~verify(signature, rescuer, approver) THEN "SignatureInvalid"
        ELSE IF ~validate(proof, root_hash(proof.tree)) THEN "MerkleProofInvalid"
        ELSE IF ~IsSome(active_recovery(lost, rescuer)) THEN "NotStarted"
        ELSE IF binary_search(Unwrap(active_recovery(lost, rescuer)).approved_friends,
                              approver).found
             THEN "AlreadyApproved"
        ELSE "Ok"

\* approve_recovery without the AlreadyApproved arm of the match.
approve_recovery_result_no_dedup(origin, lost, rescuer, signature, proof) ==
    LET approver == proof.value
    IN  IF ~IsSome(Recoverable[lost]) THEN "NotRecoverable"
        ELSE IF ~verify(signature, rescuer, approver) THEN "SignatureInvalid"
        ELSE IF ~validate(proof, Unwrap(recovery_config(lost)).friends_merkle_root)
             THEN "MerkleProofInvalid"
        ELSE IF ~IsSome(active_recovery(lost, rescuer)) THEN "NotStarted"
        ELSE "Ok"

\* The result of ensure_signed(origin) is bound to `_` and never examined.
\* approve_recovery recording the proof's value without verifying the
\* signature or the merkle proof.
approve_recovery_result_unverified(origin, lost, rescuer, signature, proof) ==
    LET approver == proof.value
    IN  IF ~IsSome(Recoverable[lost]) THEN "NotRecoverable"
        ELSE IF ~IsSome(active_recovery(lost, rescuer)) THEN "NotStarted"
        ELSE IF binary_search(Unwrap(active_recovery(lost, rescuer)).approved_friends,
                              approver).found
             THEN "AlreadyApproved"
        ELSE "Ok"

approve_recovery_result(origin, lost, rescuer, signature, proof) ==
    LET approver == proof.value
    IN  IF ~IsSome(Recoverable[lost]) THEN "NotRecoverable"
        ELSE IF ~verify(signature, rescuer, approver) THEN "SignatureInvalid"
        ELSE IF ~validate(proof, Unwrap(recovery_config(lost)).friends_merkle_root)
             THEN "MerkleProofInvalid"
        ELSE IF ~IsSome(active_recovery(lost, rescuer)) THEN "NotStarted"
        ELSE IF binary_search(Unwrap(active_recovery(lost, rescuer)).approved_friends,
                              approver).found
             THEN "AlreadyApproved"
        ELSE "Ok"

\* The approver pushed at the end instead of inserted at the sorted position.
approve_insert_push(approved_friends, approver) == Append(approved_friends, approver)

\* approved_friends after the approver is inserted at the position
\* binary_search reports.
approve_insert(approved_friends, approver) ==
    insert(approved_friends, binary_search(approved_friends, approver).pos, approver)

\* approve_recovery recording the approval under the lost account alone: in
\* the entry of every rescuer that has started a recovery of it.
approve_recovery_shared(origin, lost, rescuer, signature, proof) ==
    LET r == approve_recovery_result(origin, lost, rescuer, signature, proof)
        approver == proof.value
    IN  IF r # "Ok" THEN Rejected("approve_recovery", r)
        ELSE /\ ActiveRecoveries' = [k \in DOMAIN ActiveRecoveries |->
                    IF k[1] = lost /\ IsSome(ActiveRecoveries[k])
                       /\ ~binary_search(Unwrap(ActiveRecoveries[k]).approved_friends,
                                         approver).found
                    THEN Some(ActiveRecovery(
                             Unwrap(ActiveRecoveries[k]).created,
                             approve_insert(Unwrap(ActiveRecoveries[k]).approved_friends,
                                            approver)))
                    ELSE ActiveRecoveries[k]]
             /\ Returned("approve_recovery", <<"ApprovedRecovery", lost, rescuer, approver>>)
             /\ UNCHANGED <<Recoverable, Proxy, refs, block_number>>

approve_recovery(origin, lost, rescuer, signature, proof) ==
    LET r == approve_recovery_result(origin, lost, rescuer, signature, proof)
        approver == proof.value
        active == Unwrap(active_recovery(lost, rescuer))
    IN  IF r # "Ok" THEN Rejected("approve_recovery", r)
        ELSE /\ ActiveRecoveries' = [ActiveRecoveries EXCEPT ![<<lost, rescuer>>] =
                    Some(ActiveRecovery(active.created,
                                        approve_insert(active.approved_friends, approver)))]
             /\ Returned("approve_recovery", <<"ApprovedRecovery", lost, rescuer, approver>>)
             /\ UNCHANGED <<Recoverable, Proxy, refs, block_number>>

\* ----------------------------------------------------------- claim_recovery

\* claim_recovery with the threshold comparison off by one.
claim_recovery_result_strict_threshold(origin, lost) ==
    IF ~ensure_signed(origin) THEN "BadOrigin"
    ELSE IF ~IsSome(recovery_config(lost)) THEN "NotRecoverable"
    ELSE IF ~IsSome(active_recovery(lost, origin.who)) THEN "NotStarted"
    ELSE IF IsSome(Proxy[origin.who]) THEN "AlreadyProxied"
    ELSE LET config == Unwrap(recovery_config(lost))
             active == Unwrap(active_recovery(lost, origin.who))
             recoverable_block_number == checked_add(active.created, config.delay_period)
         IN  IF ~IsSome(recoverable_block_number) THEN "Overflow"
             ELSE IF ~(Unwrap(recoverable_block_number) <= block_number) THEN "DelayPeriod"
             ELSE IF ~(Len(active.approved_friends) > config.threshold)
                  THEN "UnderThreshold"
             ELSE "Ok"

\* claim_recovery without the delay check.
claim_recovery_result_no_delay(origin, lost) ==
    IF ~ensure_signed(origin) THEN "BadOrigin"
    ELSE IF ~IsSome(recovery_config(lost)) THEN "NotRecoverable"
    ELSE IF ~IsSome(active_recovery(lost, origin.who)) THEN "NotStarted"
    ELSE IF IsSome(Proxy[origin.who]) THEN "AlreadyProxied"
    ELSE LET config == Unwrap(recovery_config(lost))
             active == Unwrap(active_recovery(lost, origin.who))
         IN  IF ~(Len(active.approved_friends) >= config.threshold)
             THEN "UnderThreshold"
             ELSE "Ok"

\* claim_recovery without the AlreadyProxied check.
claim_recovery_result_reproxy(origin, lost) ==
    IF ~ensure_signed(origin) THEN "BadOrigin"
    ELSE IF ~IsSome(recovery_config(lost)) THEN "NotRecoverable"
    ELSE IF ~IsSome(active_recovery(lost, origin.who)) THEN "NotStarted"
    ELSE LET config == Unwrap(recovery_config(lost))
             active == Unwrap(active_recovery(lost, origin.who))
             recoverable_block_number == checked_add(active.created, config.delay_period)
         IN  IF ~IsSome(recoverable_block_number) THEN "Overflow"
             ELSE IF ~(Unwrap(recoverable_block_number) <= block_number) THEN "DelayPeriod"
             ELSE IF ~(Len(active.approved_friends) >= config.threshold)
                  THEN "UnderThreshold"
             ELSE "Ok"

\* claim_recovery refusing a lost account that some rescuer already holds.
claim_recovery_result_exclusive(origin, lost) ==
    IF ~ensure_signed(origin) THEN "BadOrigin"
    ELSE IF ~IsSome(recovery_config(lost)) THEN "NotRecoverable"
    ELSE IF ~IsSome(active_recovery(lost, origin.who)) THEN "NotStarted"
    ELSE IF IsSome(Proxy[origin.who]) THEN "AlreadyProxied"
    ELSE IF \E other \in DOMAIN Proxy : Proxy[other] = Some(lost) THEN "AlreadyProxied"
    ELSE LET config == Unwrap(recovery_config(lost))
             active == Unwrap(active_recovery(lost, origin.who))
             recoverable_block_number == checked_add(active.created, config.delay_period)
         IN  IF ~IsSome(recoverable_block_number) THEN "Overflow"
             ELSE IF ~(Unwrap(recoverable_block_number) <= block_number) THEN "DelayPeriod"
             ELSE IF ~(Len(active.approved_friends) >= config.threshold)
                  THEN "UnderThreshold"
             ELSE "Ok"

\* claim_recovery accepting only at the block the delay period ends.
claim_recovery_result_exact_block(origin, lost) ==
    IF ~ensure_signed(origin) THEN "BadOrigin"
    ELSE IF ~IsSome(recovery_config(lost)) THEN "NotRecoverable"
    ELSE IF ~IsSome(active_recovery(lost, origin.who)) THEN "NotStarted"
    ELSE IF IsSome(Proxy[origin.who]) THEN "AlreadyProxied"
    ELSE LET config == Unwrap(recovery_config(lost))
             active == Unwrap(active_recovery(lost, origin.who))
             recoverable_block_number == checked_add(active.created, config.delay_period)
         IN  IF ~IsSome(recoverable_block_number) THEN "Overflow"
             ELSE IF ~(Unwrap(recoverable_block_number) = block_number) THEN "DelayPeriod"
             ELSE IF ~(Len(active.approved_friends) >= config.threshold)
                  THEN "UnderThreshold"
             ELSE "Ok"

claim_recovery_result(origin, lost) ==
    IF ~ensure_signed(origin) THEN "BadOrigin"
    ELSE IF ~IsSome(recovery_config(lost)) THEN "NotRecoverable"
    ELSE IF ~IsSome(active_recovery(lost, origin.who)) THEN "NotStarted"
    ELSE IF IsSome(Proxy[origin.who]) THEN "AlreadyProxied"
    ELSE LET config == Unwrap(recovery_config(lost))
             active == Unwrap(active_recovery(lost, origin.who))
             recoverable_block_number == checked_add(active.created, config.delay_period)
         IN  IF ~IsSome(recoverable_block_number) THEN "Overflow"
             ELSE IF ~(Unwrap(recoverable_block_number) <= block_number) THEN "DelayPeriod"
             ELSE IF ~(Len(active.approved_friends) >= config.threshold)
                  THEN "UnderThreshold"
             ELSE "Ok"

\* claim_recovery inserting the proxy before the threshold check, so that a
\* call refused UnderThreshold has already written.
claim_recovery_early_insert(origin, lost) ==
    LET r == claim_recovery_result(origin, lost)
        rescuer == origin.who
    IN  IF r = "UnderThreshold"
        THEN /\ Proxy' = [Proxy EXCEPT ![rescuer] = Some(lost)]
             /\ called' = "claim_recovery"
             /\ result' = r
             /\ event' = None
             /\ dispatched' = None
             /\ UNCHANGED <<Recoverable, ActiveRecoveries, refs, block_number>>
        ELSE IF r # "Ok" THEN Rejected("claim_recovery", r)
        ELSE /\ Proxy' = [Proxy EXCEPT ![rescuer] = Some(lost)]
             /\ refs' = [refs EXCEPT ![rescuer] = @ + 1]
             /\ Returned("claim_recovery", <<"AccountRecovered", lost, rescuer>>)
             /\ UNCHANGED <<Recoverable, ActiveRecoveries, block_number>>

\* claim_recovery without system::Module::inc_ref.
claim_recovery_no_ref(origin, lost) ==
    LET r == claim_recovery_result(origin, lost)
        rescuer == origin.who
    IN  IF r # "Ok" THEN Rejected("claim_recovery", r)
        ELSE /\ Proxy' = [Proxy EXCEPT ![rescuer] = Some(lost)]
             /\ Returned("claim_recovery", <<"AccountRecovered", lost, rescuer>>)
             /\ UNCHANGED <<Recoverable, ActiveRecoveries, refs, block_number>>

\* claim_recovery closing the recovery it has just completed.
claim_recovery_close(origin, lost) ==
    LET r == claim_recovery_result(origin, lost)
        rescuer == origin.who
    IN  IF r # "Ok" THEN Rejected("claim_recovery", r)
        ELSE /\ Proxy' = [Proxy EXCEPT ![rescuer] = Some(lost)]
             /\ refs' = [refs EXCEPT ![rescuer] = @ + 1]
             /\ ActiveRecoveries' = [ActiveRecoveries EXCEPT ![<<lost, rescuer>>] = None]
             /\ Returned("claim_recovery", <<"AccountRecovered", lost, rescuer>>)
             /\ UNCHANGED <<Recoverable, block_number>>

\* claim_recovery revoking the proxies other rescuers hold for the account.
claim_recovery_takeover(origin, lost) ==
    LET r == claim_recovery_result(origin, lost)
        rescuer == origin.who
    IN  IF r # "Ok" THEN Rejected("claim_recovery", r)
        ELSE /\ Proxy' = [a \in DOMAIN Proxy |->
                            IF a = rescuer THEN Some(lost)
                            ELSE IF Proxy[a] = Some(lost) THEN None
                            ELSE Proxy[a]]
             /\ refs' = [refs EXCEPT ![rescuer] = @ + 1]
             /\ Returned("claim_recovery", <<"AccountRecovered", lost, rescuer>>)
             /\ UNCHANGED <<Recoverable, ActiveRecoveries, block_number>>

claim_recovery(origin, lost) ==
    LET r == claim_recovery_result(origin, lost)
        rescuer == origin.who
    IN  IF r # "Ok" THEN Rejected("claim_recovery", r)
        ELSE /\ Proxy' = [Proxy EXCEPT ![rescuer] = Some(lost)]
             /\ refs' = [refs EXCEPT ![rescuer] = @ + 1]
             /\ Returned("claim_recovery", <<"AccountRecovered", lost, rescuer>>)
             /\ UNCHANGED <<Recoverable, ActiveRecoveries, block_number>>

\* ------------------------------------------------------------------- clock

\* System::set_block_number(System::block_number() + 1)
set_block_number ==
    /\ block_number < MaxBlockNumber
    /\ block_number' = block_number + 1
    /\ UNCHANGED <<Recoverable, ActiveRecoveries, Proxy, refs,
                   called, result, event, dispatched>>

\* ----------------------------------------------------------- specification

SetRecovered ==
    \E origin \in {Root, Signed(1)}, lost \in {1, 2}, rescuer \in {3} :
        set_recovered(origin, lost, rescuer)

AsRecovered ==
    \E origin \in {Root} \cup {Signed(a) : a \in Rescuers}, lost \in {1, 2},
       call \in Calls, inner \in CallOutcomes :
        as_recovered(origin, lost, call, inner)

CreateRecovery ==
    \E origin \in {Root} \cup {Signed(a) : a \in Owners},
       friends_merkle_root \in MerkleRoots,
       threshold \in Thresholds, delay_period \in DelayPeriods :
        create_recovery(origin, friends_merkle_root, threshold, delay_period)

InitiateRecovery ==
    \E origin \in {Root} \cup {Signed(a) : a \in Rescuers}, lost \in Owners :
        initiate_recovery(origin, lost)

ApproveOrigins == {NoOrigin, Signed(1)}

ApproveRecovery ==
    \E origin \in ApproveOrigins, lost \in Owners, rescuer \in Rescuers,
       signature \in Signatures, proof \in Proofs :
        approve_recovery(origin, lost, rescuer, signature, proof)

ClaimRecovery ==
    \E origin \in {Root} \cup {Signed(a) : a \in Rescuers}, lost \in Owners :
        claim_recovery(origin, lost)

AdvanceBlock == set_block_number

Next ==
    \/ SetRecovered
    \/ AsRecovered
    \/ CreateRecovery
    \/ InitiateRecovery
    \/ ApproveRecovery
    \/ ClaimRecovery
    \/ AdvanceBlock

Spec == Init /\ [][Next]_vars

\* The same program when the privileged origin never calls set_recovered.
SetRecoveredUnprivileged ==
    \E origin \in {NoOrigin, Signed(1)}, lost \in {1, 2}, rescuer \in {3} :
        set_recovered(origin, lost, rescuer)

NextNoOverride ==
    \/ SetRecoveredUnprivileged
    \/ AsRecovered
    \/ CreateRecovery
    \/ InitiateRecovery
    \/ ApproveRecovery
    \/ ClaimRecovery
    \/ AdvanceBlock

SpecNoOverride == Init /\ [][NextNoOverride]_vars

\* The recovery flow with delay periods that reach the largest block number.
LongDelayPeriods == DelayPeriods \cup {MaxBlockNumber}

CreateRecoveryLongDelay ==
    \E origin \in {Signed(a) : a \in Owners},
       friends_merkle_root \in MerkleRoots,
       threshold \in Thresholds, delay_period \in LongDelayPeriods :
        create_recovery(origin, friends_merkle_root, threshold, delay_period)

NextOverflow ==
    \/ CreateRecoveryLongDelay
    \/ InitiateRecovery
    \/ ApproveRecovery
    \/ ClaimRecovery
    \/ AdvanceBlock

SpecOverflow == Init /\ [][NextOverflow]_vars

\* The recovery flow over configurations committing to any of the trees, so
\* that an account with a valid signature need not be a friend.
TreeRoots == {root_hash(t) : t \in Trees}

CreateRecoveryAnyTree ==
    \E origin \in {Signed(a) : a \in Owners},
       friends_merkle_root \in TreeRoots,
       threshold \in Thresholds, delay_period \in DelayPeriods :
        create_recovery(origin, friends_merkle_root, threshold, delay_period)

NextFriends ==
    \/ CreateRecoveryAnyTree
    \/ InitiateRecovery
    \/ ApproveRecovery
    \/ ClaimRecovery
    \/ AdvanceBlock

SpecFriends == Init /\ [][NextFriends]_vars

\* Approvals alone, from the state after create_recovery by account 1 (three
\* friends, threshold 2, no delay) and initiate_recovery by both rescuers.
ApprovalFriends == {1, 2, 3}

InitApprove ==
    /\ Recoverable = [a \in Accounts |->
            IF a = 1 THEN Some(RecoveryConfig(0, root_hash(ApprovalFriends), 2)) ELSE None]
    /\ ActiveRecoveries = [k \in Accounts \X Accounts |->
            IF k[1] = 1 /\ k[2] \in Rescuers THEN Some(ActiveRecovery(1, <<>>)) ELSE None]
    /\ Proxy = [a \in Accounts |-> None]
    /\ block_number = 1
    /\ refs = [a \in Accounts |-> 0]
    /\ called = "initiate_recovery"
    /\ result = "Ok"
    /\ event = Some(<<"RecoveryInitiated", 1, 3>>)
    /\ dispatched = None

ApproveRecoveryFriends ==
    \E origin \in {Signed(1)}, lost \in Owners, rescuer \in Rescuers,
       signature \in [signer : Accounts, message : Rescuers],
       proof \in [value : Accounts, tree : {ApprovalFriends}] :
        approve_recovery(origin, lost, rescuer, signature, proof)

NextApprove == ApproveRecoveryFriends

SpecApprove == InitApprove /\ [][NextApprove]_vars

\* ------------------------------------------------------------------ claims

HasConfig(P) == IsSome(Recoverable[P])
Config(P) == Unwrap(Recoverable[P])
HasEntry(P, R) == IsSome(ActiveRecoveries[<<P, R>>])
Entry(P, R) == Unwrap(ActiveRecoveries[<<P, R>>])
Approved(P, R) == {Entry(P, R).approved_friends[i] :
                      i \in 1..Len(Entry(P, R).approved_friends)}
DelayMet(P, R) == block_number >= Entry(P, R).created + Config(P).delay_period
ThresholdMet(P, R) == Len(Entry(P, R).approved_friends) >= Config(P).threshold

\* C1 (as stated): whenever a config exists for P and a ledger entry for
\* (P, R), claim_recovery(P) signed by R succeeds iff the delay has passed and
\* the threshold is met, fails DelayPeriod when only the delay is short and
\* UnderThreshold when only the threshold is short.
C1_AsStated ==
    \A P \in Accounts, R \in Accounts :
        (HasConfig(P) /\ HasEntry(P, R)) =>
            LET r == claim_recovery_result(Signed(R), P)
            IN  /\ (r = "Ok") <=> (DelayMet(P, R) /\ ThresholdMet(P, R))
                /\ (~DelayMet(P, R) /\ ThresholdMet(P, R)) => r = "DelayPeriod"
                /\ (DelayMet(P, R) /\ ~ThresholdMet(P, R)) => r = "UnderThreshold"

\* C1 (amended): whenever a config exists for P, a ledger entry exists for
\* (P, R) and R holds no proxy entry, claim_recovery(P) signed by R succeeds
\* iff now >= created + delay_period and the approvals reach the threshold;
\* when only the delay is short it fails DelayPeriod, or Overflow when
\* created + delay_period exceeds the largest block number; when only the
\* threshold is short it fails UnderThreshold. With a proxy entry for R the
\* call fails AlreadyProxied.
C1_ClaimIff ==
    \A P \in Accounts, R \in Accounts :
        (HasConfig(P) /\ HasEntry(P, R)) =>
            LET r == claim_recovery_result(Signed(R), P)
                eligible_at == Entry(P, R).created + Config(P).delay_period
            IN  IF IsSome(Proxy[R]) THEN r = "AlreadyProxied"
                ELSE /\ (r = "Ok") <=> (DelayMet(P, R) /\ ThresholdMet(P, R))
                     /\ (~DelayMet(P, R) /\ ThresholdMet(P, R)) =>
                            r = (IF eligible_at > MaxBlockNumber
                                 THEN "Overflow" ELSE "DelayPeriod")
                     /\ (DelayMet(P, R) /\ ~ThresholdMet(P, R)) => r = "UnderThreshold"

\* C1 witness: a claim has succeeded for a config with a delay and a
\* threshold of two, both met.
C1_Witness ==
    \E P \in Accounts, R \in Accounts :
        /\ called = "claim_recovery" /\ result = "Ok"
        /\ event = Some(<<"AccountRecovered", P, R>>)
        /\ HasConfig(P) /\ HasEntry(P, R)
        /\ Config(P).delay_period = 1 /\ Config(P).threshold = 2
        /\ DelayMet(P, R) /\ ThresholdMet(P, R)

\* C2: when the privileged origin never calls set_recovered, every proxy
\* entry R -> P is backed by a config for P and a ledger entry (P, R) whose
\* approvals reach the threshold and whose delay has passed; and a
\* claim_recovery step installs a proxy only from a state where both are met.
C2_Backed ==
    \A R \in Accounts :
        IsSome(Proxy[R]) =>
            LET P == Unwrap(Proxy[R])
            IN  /\ HasConfig(P) /\ HasEntry(P, R)
                /\ ThresholdMet(P, R)
                /\ Entry(P, R).created + Config(P).delay_period <= block_number

C2_ClaimStep ==
    (called' = "claim_recovery") =>
    \A P \in Accounts, R \in Accounts :
        (claim_recovery(Signed(R), P) /\ Proxy'[R] # Proxy[R]) =>
            /\ HasConfig(P) /\ HasEntry(P, R)
            /\ ThresholdMet(P, R) /\ DelayMet(P, R)

C2_ProxyBacked == [](C2_Backed) /\ [][C2_ClaimStep]_vars

\* C2 witness: a proxy entry exists and the clock has moved on since the
\* claim that installed it.
C2_Witness ==
    \E R \in Accounts :
        /\ IsSome(Proxy[R]) /\ refs[R] = 1
        /\ Config(Unwrap(Proxy[R])).delay_period = 1
        /\ called # "claim_recovery"
        /\ block_number = MaxBlockNumber

IsSorted(v) == \A i \in 1..Len(v), j \in 1..Len(v) : i < j => v[i] < v[j]
StoredRoot(P) == Config(P).friends_merkle_root

\* C3: for distinct rescuers R1 and R2 that both have a ledger entry for P,
\* approve_recovery(P, R2, sig, proof) with friend F's signature over R1 and
\* F's valid inclusion proof fails SignatureInvalid; any signature other than
\* the proof identity's signature over the named rescuer fails
\* SignatureInvalid; and a call that fails so leaves the ledger unchanged.
C3_Replayed ==
    \A o \in ApproveOrigins, P \in Accounts, R1 \in Accounts, R2 \in Accounts, proof \in Proofs :
        (/\ R1 # R2 /\ HasConfig(P) /\ HasEntry(P, R1) /\ HasEntry(P, R2)
         /\ validate(proof, StoredRoot(P))) =>
            approve_recovery_result(o, P, R2, sign_by_seed(proof.value, R1), proof)
                = "SignatureInvalid"

C3_AnyOther ==
    \A o \in ApproveOrigins, P \in Accounts, R \in Accounts,
       signature \in Signatures, proof \in Proofs :
        (HasConfig(P) /\ signature # sign_by_seed(proof.value, R)) =>
            approve_recovery_result(o, P, R, signature, proof) = "SignatureInvalid"

C3_Step == (result' = "SignatureInvalid") => (ActiveRecoveries' = ActiveRecoveries)

C3_SignatureBinding == [](C3_Replayed /\ C3_AnyOther) /\ [][C3_Step]_vars

\* C3 witness: a call failed SignatureInvalid while friend F's approval is
\* recorded for rescuer R1 and not for rescuer R2, both with an entry for P.
C3_Witness ==
    \E P \in Accounts, R1 \in Accounts, R2 \in Accounts, F \in Accounts :
        /\ R1 # R2 /\ HasConfig(P) /\ HasEntry(P, R1) /\ HasEntry(P, R2)
        /\ called = "approve_recovery" /\ result = "SignatureInvalid"
        /\ F \in Approved(P, R1) /\ F \notin Approved(P, R2)

\* C4: approve_recovery(P, R, sig, proof) with a proof that validates against
\* the root of another tree and not against P's stored friends_merkle_root
\* fails MerkleProofInvalid even with the proof identity's valid signature
\* over R, and a call that fails so leaves the ledger unchanged.
C4_OtherRoot ==
    \A o \in ApproveOrigins, P \in Accounts, R \in Accounts, proof \in Proofs :
        (/\ HasConfig(P)
         /\ ~validate(proof, StoredRoot(P))
         /\ \E t \in Trees : validate(proof, root_hash(t))) =>
            approve_recovery_result(o, P, R, sign_by_seed(proof.value, R), proof)
                = "MerkleProofInvalid"

C4_Step == (result' = "MerkleProofInvalid") => (ActiveRecoveries' = ActiveRecoveries)

C4_MerkleBinding == [](C4_OtherRoot) /\ [][C4_Step]_vars

\* C4 witness: a call failed MerkleProofInvalid against a started recovery,
\* and a proof exists that is valid for another root only.
C4_Witness ==
    \E P \in Accounts, R \in Accounts, proof \in Proofs :
        /\ HasConfig(P) /\ HasEntry(P, R)
        /\ ~validate(proof, StoredRoot(P))
        /\ \E t \in Trees : validate(proof, root_hash(t))
        /\ called = "approve_recovery" /\ result = "MerkleProofInvalid"

\* C5: for two distinct friends A and B holding valid proofs and signatures
\* for (P, R) and not yet recorded, either may approve first, and the
\* approved_friends stored after A then B equal those stored after B then A;
\* each accepted approval stores the insertion of its approver.
C5_ValidFor(P, R, F) ==
    approve_recovery_result(Signed(1), P, R, sign_by_seed(F, R),
                            gen_proof(ApprovalFriends, F))

C5_Accepted ==
    \A P \in Accounts, R \in Accounts, F \in ApprovalFriends :
        (/\ HasConfig(P) /\ HasEntry(P, R)
         /\ validate(gen_proof(ApprovalFriends, F), StoredRoot(P))) =>
            C5_ValidFor(P, R, F) =
                (IF F \in Approved(P, R) THEN "AlreadyApproved" ELSE "Ok")

C5_Commutes ==
    \A P \in Accounts, R \in Accounts, A \in ApprovalFriends, B \in ApprovalFriends :
        (/\ HasConfig(P) /\ HasEntry(P, R) /\ A # B
         /\ A \notin Approved(P, R) /\ B \notin Approved(P, R)) =>
            LET v == Entry(P, R).approved_friends
            IN  approve_insert(approve_insert(v, A), B)
                    = approve_insert(approve_insert(v, B), A)

C5_Step ==
    (called' = "approve_recovery") =>
    \A P \in Accounts, R \in Rescuers, F \in ApprovalFriends :
        (/\ HasEntry(P, R)
         /\ C5_ValidFor(P, R, F) = "Ok"
         /\ approve_recovery(Signed(1), P, R, sign_by_seed(F, R),
                             gen_proof(ApprovalFriends, F))) =>
            ActiveRecoveries'[<<P, R>>] =
                Some(ActiveRecovery(Entry(P, R).created,
                                    approve_insert(Entry(P, R).approved_friends, F)))

C5_OrderIndependent == [](C5_Accepted /\ C5_Commutes) /\ [][C5_Step]_vars

\* C5 witness: three friends are recorded for one pair, the smallest of them
\* approved last.
C5_Witness ==
    \E P \in Accounts, R \in Accounts :
        /\ HasEntry(P, R)
        /\ Entry(P, R).approved_friends = <<1, 2, 3>>
        /\ event = Some(<<"ApprovedRecovery", P, R, 1>>)

\* C6: approved_friends of every ledger entry is strictly ascending (so holds
\* no identity twice); an approve_recovery with valid proof and signature by
\* a friend already in approved_friends(P, R) fails AlreadyApproved, and a
\* call that fails so leaves the ledger unchanged.
C6_Sorted ==
    \A P \in Accounts, R \in Accounts :
        HasEntry(P, R) => IsSorted(Entry(P, R).approved_friends)

C6_Twice ==
    \A o \in ApproveOrigins, P \in Accounts, R \in Accounts, proof \in Proofs :
        (/\ HasConfig(P) /\ HasEntry(P, R)
         /\ validate(proof, StoredRoot(P))
         /\ proof.value \in Approved(P, R)) =>
            approve_recovery_result(o, P, R, sign_by_seed(proof.value, R), proof)
                = "AlreadyApproved"

C6_Step == (result' = "AlreadyApproved") => (ActiveRecoveries' = ActiveRecoveries)

C6_NoDuplicates == [](C6_Sorted /\ C6_Twice) /\ [][C6_Step]_vars

\* C6 witness: a second approval by a recorded friend was refused while two
\* friends are recorded.
C6_Witness ==
    \E P \in Accounts, R \in Accounts :
        /\ HasEntry(P, R) /\ Len(Entry(P, R).approved_friends) = 2
        /\ called = "approve_recovery" /\ result = "AlreadyApproved"

\* C7: whenever a ledger entry exists for (P, R), initiate_recovery(P) by R
\* fails AlreadyStarted, and no initiate_recovery step changes an existing
\* entry (its created block and approved_friends stay).
C7_Refused ==
    \A P \in Accounts, R \in Accounts :
        HasEntry(P, R) => initiate_recovery_result(Signed(R), P) = "AlreadyStarted"

C7_Step ==
    (called' = "initiate_recovery") =>
        \A P \in Accounts, R \in Accounts :
            HasEntry(P, R) => ActiveRecoveries'[<<P, R>>] = ActiveRecoveries[<<P, R>>]

C7_IdempotentRejecting == [](C7_Refused) /\ [][C7_Step]_vars

\* C7 witness: a second initiation was refused after approvals and a
\* successful claim.
C7_Witness ==
    \E P \in Accounts :
        /\ called = "initiate_recovery" /\ result = "AlreadyStarted"
        /\ \A R \in Rescuers :
               /\ HasEntry(P, R) /\ Len(Entry(P, R).approved_friends) >= 1
               /\ Proxy[R] = Some(P) /\ refs[R] = 1

\* C8 (as stated): create_recovery with threshold 0 fails ZeroThreshold in
\* every state and for every caller, a caller that already has a
\* configuration included.
C8_AsStated ==
    \A who \in Accounts : create_recovery_result(Signed(who), 0) = "ZeroThreshold"

\* C8 (amended): create_recovery with threshold 0 always fails and writes
\* nothing: with ZeroThreshold when the signing caller has no configuration,
\* with AlreadyRecoverable when it has one (that check comes first);
\* consequently every stored config has threshold >= 1.
C8_Fails ==
    \A who \in Accounts :
        create_recovery_result(Signed(who), 0) =
            (IF HasConfig(who) THEN "AlreadyRecoverable" ELSE "ZeroThreshold")

C8_Stored == \A P \in Accounts : HasConfig(P) => Config(P).threshold >= 1

C8_Step ==
    (called' = "create_recovery") =>
    \A origin \in Origins, root \in MerkleRoots, delay_period \in DelayPeriods :
        create_recovery(origin, root, 0, delay_period) =>
            /\ result' # "Ok"
            /\ event' = None
            /\ UNCHANGED <<Recoverable, ActiveRecoveries, Proxy, refs>>

C8_ZeroThreshold == [](C8_Fails /\ C8_Stored) /\ [][C8_Step]_vars

\* C8 witness: a create_recovery with threshold 0 by a caller without a
\* config was refused ZeroThreshold and nothing is stored.
C8_Witness ==
    /\ called = "create_recovery" /\ result = "ZeroThreshold"
    /\ \A P \in Accounts : ~HasConfig(P)

\* C9: create_recovery by an account that already has a config fails
\* AlreadyRecoverable, and once a config exists for P no step changes its
\* delay_period, friends_merkle_root or threshold.
C9_Refused ==
    \A who \in Accounts, threshold \in Thresholds :
        HasConfig(who) =>
            create_recovery_result(Signed(who), threshold) = "AlreadyRecoverable"

C9_Step ==
    \A P \in Accounts : HasConfig(P) => Recoverable'[P] = Recoverable[P]

C9_WriteOnce == [](C9_Refused) /\ [][C9_Step]_vars

\* C9 witness: a second create_recovery by a configured account was refused.
C9_Witness ==
    \E P \in Accounts :
        /\ HasConfig(P)
        /\ called = "create_recovery" /\ result = "AlreadyRecoverable"

\* C10: set_recovered(lost, rescuer) from the root origin succeeds in every
\* state and installs the proxy, so that in the resulting state
\* as_recovered(lost, call) signed by the rescuer passes authorization; and
\* an as_recovered by a rescuer whose proxy is the lost account forwards the
\* call under the lost account's identity.
C10_Step ==
    /\ (called' = "set_recovered") =>
       \A lost \in Accounts, rescuer \in Accounts :
           set_recovered(Root, lost, rescuer) =>
               /\ result' = "Ok"
               /\ Proxy'[rescuer] = Some(lost)
               /\ (as_recovered_result(Signed(rescuer), lost))' = "Ok"
    /\ (called' = "as_recovered") =>
       \A lost \in Accounts, rescuer \in Accounts, call \in Calls, inner \in CallOutcomes :
           (Proxy[rescuer] = Some(lost) /\ as_recovered(Signed(rescuer), lost, call, inner)) =>
               /\ dispatched' = Some([origin |-> Signed(lost), call |-> call])
               /\ result' = inner

C10_Override == [](set_recovered_result(Root) = "Ok") /\ [][C10_Step]_vars

\* C10 witness: a call was forwarded for a pair the root origin installed,
\* the lost account having no config and the rescuer no claim.
C10_Witness ==
    \E lost \in Accounts, rescuer \in Accounts :
        /\ Proxy[rescuer] = Some(lost)
        /\ ~HasConfig(lost) /\ refs[rescuer] = 0
        /\ called = "as_recovered" /\ result = "Ok"
        /\ dispatched = Some([origin |-> Signed(lost), call |-> "transfer"])

\* C11: as_recovered(lost, call) signed by R fails NotAllowed, forwarding
\* nothing and writing nothing, whenever R has no proxy entry or R's entry
\* targets another account than lost; a call is forwarded only when
\* Proxy[R] = lost, and then under the identity of lost.
C11_Refused ==
    \A R \in Accounts, lost \in Accounts :
        (Proxy[R] # Some(lost)) => as_recovered_result(Signed(R), lost) = "NotAllowed"

C11_Step ==
    (called' = "as_recovered") =>
        /\ (result' = "NotAllowed") =>
               (dispatched' = None /\ UNCHANGED <<Recoverable, ActiveRecoveries, Proxy, refs>>)
        /\ \A R \in Accounts, lost \in Accounts, call \in Calls, inner \in CallOutcomes :
               (as_recovered(Signed(R), lost, call, inner) /\ IsSome(dispatched')) =>
                   /\ Proxy[R] = Some(lost)
                   /\ Unwrap(dispatched').origin = Signed(lost)

C11_NotAllowed == [](C11_Refused) /\ [][C11_Step]_vars

\* C11 witness: as_recovered was refused NotAllowed although every rescuer
\* that signs it holds a proxy entry (so for a target that is not its own),
\* the two entries naming different accounts.
C11_Witness ==
    /\ called = "as_recovered" /\ result = "NotAllowed" /\ dispatched = None
    /\ \A R \in Rescuers : IsSome(Proxy[R])
    /\ Proxy[2] # Proxy[3]

Dispatchables == {"set_recovered", "as_recovered", "create_recovery",
                  "initiate_recovery", "approve_recovery", "claim_recovery"}

\* C12: every rejected call leaves the protocol state as it was: a step of
\* any of the six calls that returns an error without having forwarded a
\* call (the unprivileged set_recovered and the authorization failure of
\* as_recovered included) changes none of Recoverable, ActiveRecoveries,
\* Proxy and the reference counts, and deposits no event.
C12_Step ==
    (called' \in Dispatchables /\ result' # "Ok" /\ dispatched' = None) =>
        /\ UNCHANGED <<Recoverable, ActiveRecoveries, Proxy, refs>>
        /\ event' = None

C12_RejectedUnchanged == [][C12_Step]_vars

\* C12 witness: a claim was refused UnderThreshold with an approval recorded
\* and the delay passed, and the rescuer still holds no proxy and no
\* reference.
C12_Witness ==
    \E P \in Accounts, R \in Accounts :
        /\ called = "claim_recovery" /\ result = "UnderThreshold" /\ event = None
        /\ HasConfig(P) /\ HasEntry(P, R)
        /\ Len(Entry(P, R).approved_friends) = 1 /\ Config(P).threshold = 2
        /\ Proxy[R] = None /\ refs[R] = 0

\* C13: approve_recovery requires a signed origin: a call from the root
\* origin or from no origin is rejected (and so appends no approval),
\* whatever the other arguments.
C13_SignedOrigin ==
    \A o \in {Root, NoOrigin}, P \in Accounts, R \in Accounts,
       signature \in Signatures, proof \in Proofs :
        approve_recovery_result(o, P, R, signature, proof) # "Ok"

\* C14: the three effects of claim_recovery come together: in every
\* claim_recovery step the proxy entry of R is installed iff R's reference
\* count rises by exactly one iff AccountRecovered(P, R) is deposited in that
\* step, for the P the entry names; no other step changes a reference count,
\* so no state has a counted reference without a proxy entry.
\* A step of the named dispatchable: it records its name, and only the clock
\* step, which records none, changes the block number.
StepOf(name) == called' = name /\ block_number' = block_number

C14_ClaimStep ==
    StepOf("claim_recovery") =>
        \A R \in Accounts :
            LET installed == Proxy'[R] # Proxy[R]
                counted == refs'[R] = refs[R] + 1
                emitted == \E P \in Accounts : event' = Some(<<"AccountRecovered", P, R>>)
            IN  /\ installed <=> counted
                /\ counted <=> emitted
                /\ refs'[R] \in {refs[R], refs[R] + 1}
                /\ installed =>
                       event' = Some(<<"AccountRecovered", Unwrap(Proxy'[R]), R>>)

C14_OtherStep == (~StepOf("claim_recovery")) => (refs' = refs)

C14_Counted == \A R \in Accounts : refs[R] > 0 => IsSome(Proxy[R])

C14_Atomic == [](C14_Counted) /\ [][C14_ClaimStep /\ C14_OtherStep]_vars

\* C14 witness: a claim has just installed the proxy, counted the reference
\* and deposited the event.
C14_Witness ==
    \E P \in Accounts, R \in Accounts :
        /\ called = "claim_recovery" /\ result = "Ok"
        /\ Proxy[R] = Some(P) /\ refs[R] = 1
        /\ event = Some(<<"AccountRecovered", P, R>>)

\* C15 (as stated): claim_recovery(P) by R fails AlreadyProxied whenever R
\* already has any proxy entry.
C15_AsStated ==
    \A P \in Accounts, R \in Accounts :
        IsSome(Proxy[R]) => claim_recovery_result(Signed(R), P) = "AlreadyProxied"

\* C15 (amended): whenever R already has any proxy entry, claim_recovery(P)
\* by R fails: AlreadyProxied when a config for P and a ledger entry (P, R)
\* exist, even with the delay and the threshold met, and NotRecoverable or
\* NotStarted when they do not (those checks come first); no claim_recovery
\* step changes an existing proxy entry.
C15_Fails ==
    \A P \in Accounts, R \in Accounts :
        IsSome(Proxy[R]) =>
            claim_recovery_result(Signed(R), P) =
                (IF ~HasConfig(P) THEN "NotRecoverable"
                 ELSE IF ~HasEntry(P, R) THEN "NotStarted"
                 ELSE "AlreadyProxied")

C15_Step ==
    StepOf("claim_recovery") =>
        \A R \in Accounts : IsSome(Proxy[R]) => Proxy'[R] = Proxy[R]

C15_AlreadyProxied == [](C15_Fails) /\ [][C15_Step]_vars

\* C15 witness: a claim was refused AlreadyProxied for a rescuer whose entry
\* for P meets the delay and the threshold and whose proxy entry names
\* another account, the other rescuer holding none.
C15_Witness ==
    \E P \in Accounts, R \in Rescuers :
        /\ called = "claim_recovery" /\ result = "AlreadyProxied"
        /\ HasConfig(P) /\ HasEntry(P, R)
        /\ DelayMet(P, R) /\ ThresholdMet(P, R)
        /\ IsSome(Proxy[R]) /\ Proxy[R] # Some(P)
        /\ \A Q \in Rescuers \ {R} : Proxy[Q] = None

\* C16: recovery attempts by distinct rescuers are independent: for
\* R1 # R2 no initiate_recovery, approve_recovery or claim_recovery step
\* acting on (P, R1) changes the ledger entry (P, R2) or the proxy entry of
\* R2 (a step that changes the ledger or a proxy is an accepted call, and an
\* accepted approval carries the approver's signature over R1); and the
\* threshold check of R2's claim counts the approvals of (P, R2) alone,
\* whatever is recorded for other rescuers.
C16_Kept(P, R2) ==
    /\ ActiveRecoveries'[<<P, R2>>] = ActiveRecoveries[<<P, R2>>]
    /\ Proxy'[R2] = Proxy[R2]

C16_Step ==
    (ActiveRecoveries' # ActiveRecoveries \/ Proxy' # Proxy) =>
        /\ StepOf("initiate_recovery") =>
               \A P \in Accounts, R1 \in Accounts, R2 \in Accounts :
                   (R1 # R2 /\ initiate_recovery(Signed(R1), P)) => C16_Kept(P, R2)
        /\ StepOf("claim_recovery") =>
               \A P \in Accounts, R1 \in Accounts, R2 \in Accounts :
                   (R1 # R2 /\ claim_recovery(Signed(R1), P)) => C16_Kept(P, R2)
        /\ StepOf("approve_recovery") =>
               \A P \in Accounts, R1 \in Accounts, R2 \in Accounts,
                  o \in ApproveOrigins, proof \in Proofs :
                   (/\ R1 # R2 /\ HasEntry(P, R1)
                    /\ approve_recovery(o, P, R1, sign_by_seed(proof.value, R1), proof)) =>
                       C16_Kept(P, R2)

C16_OwnApprovals ==
    \A P \in Accounts, R2 \in Accounts :
        (/\ HasConfig(P) /\ HasEntry(P, R2) /\ Proxy[R2] = None
         /\ DelayMet(P, R2)) =>
            (claim_recovery_result(Signed(R2), P) = "Ok" <=> ThresholdMet(P, R2))

C16_Independent == [](C16_OwnApprovals) /\ [][C16_Step]_vars

\* C16 witness: R1 has claimed P with two approvals while R2's claim of the
\* same P was refused UnderThreshold, R2's entry holding no approval.
C16_Witness ==
    \E P \in Accounts, R1 \in Accounts, R2 \in Accounts :
        /\ R1 # R2 /\ HasConfig(P) /\ HasEntry(P, R1) /\ HasEntry(P, R2)
        /\ Len(Entry(P, R1).approved_friends) = 2 /\ Proxy[R1] = Some(P) /\ refs[R1] = 1
        /\ Len(Entry(P, R2).approved_friends) = 0 /\ Proxy[R2] = None
        /\ called = "claim_recovery" /\ result = "UnderThreshold"

\* C17: a second successful claim on one protected account is not
\* prevented: when R1 already holds the proxy for P, a claim_recovery(P) by
\* another rescuer R2 without a proxy, whose own entry meets the delay and
\* the threshold, succeeds, and the step leaves both R1 and R2 with a proxy
\* entry for P. The witness is the state this produces without any
\* set_recovered.
C17_SecondAccepted ==
    \A P \in Accounts, R1 \in Accounts, R2 \in Accounts :
        (/\ R1 # R2 /\ Proxy[R1] = Some(P) /\ Proxy[R2] = None
         /\ HasConfig(P) /\ HasEntry(P, R2)
         /\ DelayMet(P, R2) /\ ThresholdMet(P, R2)) =>
            claim_recovery_result(Signed(R2), P) = "Ok"

C17_Step ==
    (StepOf("claim_recovery") /\ Proxy' # Proxy) =>
        \A P \in Accounts, R1 \in Accounts, R2 \in Accounts :
            (/\ R1 # R2 /\ Proxy[R1] = Some(P)
             /\ claim_recovery(Signed(R2), P)) =>
                (Proxy'[R1] = Some(P) /\ Proxy'[R2] = Some(P))

C17_NotPrevented == [](C17_SecondAccepted) /\ [][C17_Step]_vars

\* C17 witness: two distinct rescuers each hold a proxy entry for the same
\* account, each with the reference its own claim counted.
C17_Witness ==
    \E P \in Accounts, R1 \in Accounts, R2 \in Accounts :
        /\ R1 # R2
        /\ Proxy[R1] = Some(P) /\ refs[R1] = 1
        /\ Proxy[R2] = Some(P) /\ refs[R2] = 1

\* C18: a ledger entry is never deleted or reset. In every step, an entry
\* that exists for (P, R) still exists afterwards with the same created
\* block and with approved friends that include all those it had; a
\* successful claim_recovery(P) by R in particular leaves R's entry exactly
\* as it was.
C18_Step ==
    (ActiveRecoveries' # ActiveRecoveries) =>
    \A P \in Accounts, R \in Accounts :
        HasEntry(P, R) =>
            /\ HasEntry(P, R)'
            /\ Entry(P, R)'.created = Entry(P, R).created
            /\ Approved(P, R) \subseteq Approved(P, R)'
            /\ Len(Entry(P, R)'.approved_friends) >= Len(Entry(P, R).approved_friends)

C18_ClaimStep ==
    (StepOf("claim_recovery") /\ result' = "Ok") =>
        ActiveRecoveries' = ActiveRecoveries

C18_NeverDeleted == [][C18_Step /\ C18_ClaimStep]_vars

\* C18 witness: a rescuer has claimed the account and the entry of that
\* recovery is still in the ledger with its approvals.
C18_Witness ==
    \E P \in Accounts, R \in Accounts :
        /\ called = "claim_recovery" /\ result = "Ok"
        /\ event = Some(<<"AccountRecovered", P, R>>)
        /\ HasEntry(P, R) /\ Approved(P, R) # {}

\* C19: claim_recovery never wraps the eligibility block. Whenever a config
\* exists for P, an entry exists for (P, R), R holds no proxy and
\* created + delay_period exceeds the largest block number, claim_recovery(P)
\* signed by R returns Overflow, at any block number and with any number of
\* approvals; and the step of such a call records Overflow and changes no
\* storage.
C19_Overflows(P, R) ==
    /\ HasConfig(P) /\ HasEntry(P, R) /\ Proxy[R] = None
    /\ Entry(P, R).created + Config(P).delay_period > MaxBlockNumber

C19_Result ==
    \A P \in Accounts, R \in Accounts :
        C19_Overflows(P, R) => claim_recovery_result(Signed(R), P) = "Overflow"

C19_Step ==
    StepOf("claim_recovery") =>
        \A P \in Accounts, R \in Accounts :
            (C19_Overflows(P, R) /\ claim_recovery(Signed(R), P)) =>
                (result' = "Overflow" /\ storage' = storage)

C19_Overflow == [](C19_Result) /\ [][C19_Step]_vars

\* C19 witness: a claim has failed Overflow before the last block, on a
\* recovery whose approvals meet the threshold.
C19_Witness ==
    \E P \in Accounts, R \in Accounts :
        /\ called = "claim_recovery" /\ result = "Overflow"
        /\ C19_Overflows(P, R) /\ ThresholdMet(P, R)
        /\ block_number < MaxBlockNumber

\* C20: eligibility is stable and only an explicit claim acts on it. A step
\* that advances the block number changes no storage map and no reference
\* count; and in every step, if claim_recovery(P) signed by R would succeed
\* before the step and R has no proxy entry after it, claim_recovery(P)
\* signed by R would succeed after the step as well.
C20_Eligible(P, R) == claim_recovery_result(Signed(R), P) = "Ok"

C20_ClockStep ==
    (block_number' # block_number) =>
        /\ block_number' = block_number + 1
        /\ storage' = storage
        /\ refs' = refs

C20_Step ==
    (storage' # storage \/ block_number' # block_number) =>
        \A P \in Accounts, R \in Accounts :
            (HasEntry(P, R) /\ Proxy'[R] = None /\ C20_Eligible(P, R)) =>
                C20_Eligible(P, R)'

C20_Stable == [][C20_ClockStep /\ C20_Step]_vars

\* C20 witness: a claim that would succeed has been withheld past the block
\* at which it became eligible, while another call was made.
C20_Witness ==
    \E P \in Accounts, R \in Accounts :
        /\ HasEntry(P, R) /\ C20_Eligible(P, R)
        /\ block_number > Entry(P, R).created + Config(P).delay_period
        /\ block_number = MaxBlockNumber
        /\ called = "approve_recovery"

\* C21: proxy entries persist and only the privileged override changes one.
\* In every step each rescuer R with a proxy entry still has one afterwards,
\* and its target is the same unless the step is a successful set_recovered
\* naming R as rescuer; a set_recovered from the root origin installs its
\* target over whatever entry R had; and a claim_recovery step changes no
\* existing entry.
C21_Persist ==
    (Proxy' # Proxy) =>
        \A R \in Accounts :
            IsSome(Proxy[R]) =>
                /\ IsSome(Proxy'[R])
                /\ (Proxy'[R] # Proxy[R]) =>
                       /\ StepOf("set_recovered") /\ result' = "Ok"
                       /\ event' = Some(<<"AccountRecovered", Unwrap(Proxy'[R]), R>>)

C21_OverrideStep ==
    (StepOf("set_recovered") /\ result' = "Ok") =>
        \A lost \in Accounts, rescuer \in Accounts :
            set_recovered(Root, lost, rescuer) => Proxy'[rescuer] = Some(lost)

C21_ClaimStep ==
    StepOf("claim_recovery") =>
        \A R \in Accounts : IsSome(Proxy[R]) => Proxy'[R] = Proxy[R]

C21_ProxyPersists == [][C21_Persist /\ C21_OverrideStep /\ C21_ClaimStep]_vars

\* C21 witness: the override has just replaced the target of an entry that
\* the rescuer's own claim had installed.
C21_Witness ==
    \E R \in Accounts :
        /\ called = "set_recovered" /\ result = "Ok"
        /\ refs[R] = 1
        /\ Proxy[R] = Some(2)
        /\ event = Some(<<"AccountRecovered", 2, R>>)

\* C22: every identity stored in approved_friends of (P, R) was admitted by
\* an approve_recovery call that passed both verifications for that P and
\* that R. In every reachable state each stored identity F has a proof with
\* value F that validates against P's stored friends_merkle_root; and every
\* step that changes the approved friends of (P, R) is a successful
\* approve_recovery(P, R) that adds exactly one identity F, where every call
\* that makes the step carries a proof with value F valid for P's stored
\* root and a signature that verifies under F's key over R.
C22_Friends(P, R) == IF HasEntry(P, R) THEN Approved(P, R) ELSE {}

C22_IsFriend(P, F) ==
    \E proof \in Proofs : proof.value = F /\ validate(proof, StoredRoot(P))

C22_Members ==
    \A P \in Accounts, R \in Accounts :
        HasEntry(P, R) =>
            (HasConfig(P) /\ \A F \in Approved(P, R) : C22_IsFriend(P, F))

C22_Step ==
    (ActiveRecoveries' # ActiveRecoveries) =>
        \A P \in Accounts, R \in Accounts :
            (C22_Friends(P, R)' # C22_Friends(P, R)) =>
                /\ StepOf("approve_recovery") /\ result' = "Ok"
                /\ HasConfig(P)
                /\ \E F \in Accounts :
                    /\ event' = Some(<<"ApprovedRecovery", P, R, F>>)
                    /\ C22_Friends(P, R)' = C22_Friends(P, R) \cup {F}
                    /\ \E o \in ApproveOrigins, signature \in Signatures, proof \in Proofs :
                           approve_recovery(o, P, R, signature, proof)
                    /\ \A o \in ApproveOrigins, signature \in Signatures, proof \in Proofs :
                           approve_recovery(o, P, R, signature, proof) =>
                               /\ proof.value = F
                               /\ validate(proof, StoredRoot(P))
                               /\ verify(signature, R, F)

C22_Admitted == [](C22_Members) /\ [][C22_Step]_vars

\* C22 witness: an approval has just been recorded for a recovery of an
\* account whose root commits to fewer accounts than can sign: some account
\* with a valid signature over the rescuer is no friend and is not recorded.
C22_Witness ==
    \E P \in Accounts, R \in Accounts, F \in Accounts, G \in Accounts :
        /\ called = "approve_recovery" /\ result = "Ok"
        /\ event = Some(<<"ApprovedRecovery", P, R, F>>)
        /\ HasEntry(P, R) /\ F \in Approved(P, R)
        /\ verify(sign_by_seed(G, R), R, G)
        /\ sign_by_seed(G, R) \in Signatures
        /\ ~C22_IsFriend(P, G) /\ G \notin Approved(P, R)

====
